---------------------------- MODULE Spec2Model ----------------------------
(***************************************************************************)
(* A model of subtitle-ebook/generate.py: match_episode, episode_html,     *)
(* prepare and generate.  Python strings that the code inspects character  *)
(* by character are sequences of one-character strings; strings it only    *)
(* compares are TLA+ strings.  A call that raises is a result of kind      *)
(* "raise"; a function that raises leaves the process in pc = "error".     *)
(***************************************************************************)
EXTENDS Integers, Sequences, FiniteSets, TLC

VARIABLES
    pc,             \* position of the running function
    \* match_episode(filename, lst_pattern, lst_suffix)
    filename, lst_pattern, lst_suffix, se,
    \* episode_html(filepath)
    cues, line_no, lst_line, html,
    \* prepare(title, dirpath, file_info)
    file_info, file_default, series_info, files, data, data_tv, file_no,
    run, file_before, history,
    \* generate(file_info, file_epub)
    entry_no, lst_spine, toc, s_prev_season, s_lst_episode, book, file_epub,
    exc             \* the exception prepare or generate raised, None when none

matchVars == <<filename, lst_pattern, lst_suffix, se>>
htmlVars  == <<cues, line_no, lst_line, html>>
prepVars  == <<file_info, file_default, series_info, files, data, file_no,
               run, file_before, history>>
genVars   == <<entry_no, lst_spine, toc, s_prev_season, s_lst_episode, book,
               file_epub>>
vars      == <<pc, exc, matchVars, htmlVars, prepVars, genVars, data_tv>>

\* ------------------------------------------------------------- bounds
MaxPatterns == 3    \* longest pattern list handed to match_episode
MaxCues     == 3    \* most cue lines in a subtitle file
MaxFiles    == 2    \* most files in the walked directory
MaxRuns     == 2    \* most invocations of prepare in a row
MaxEntries  == 4    \* most episode entries in the info file
MaxSeason   == 1    \* largest season number in the info file

\* ------------------------------------------------------------ strings
None == "None"

Last(s)  == s[Len(s)]
Front(s) == SubSeq(s, 1, Len(s) - 1)

DigitChars == <<"0", "1", "2", "3", "4", "5", "6", "7", "8", "9">>
IsDigit(c) == \E d \in 1..10 : DigitChars[d] = c

DigitValue(c) == (CHOOSE d \in 1..10 : DigitChars[d] = c) - 1

RECURSIVE Digits(_)
\* str(n) for n >= 0
Digits(n) ==
    IF n < 10 THEN <<DigitChars[n + 1]>>
    ELSE Digits(n \div 10) \o <<DigitChars[(n % 10) + 1]>>

\* '{0:02d}'.format(n): at least two digits, zero padded
Format02d(n) == IF n < 10 THEN <<"0">> \o Digits(n) ELSE Digits(n)

RECURSIVE int(_)
\* int(s) of a non-empty digit string
int(s) ==
    IF Len(s) = 1 THEN DigitValue(s[1])
    ELSE 10 * int(Front(s)) + DigitValue(Last(s))

\* 'S{0:02d}E{1:02d}'.format(season, episode)
FormatSE(season, episode) ==
    <<"S">> \o Format02d(season) \o <<"E">> \o Format02d(episode)

\* --------------------------------------------------- match_episode
\* File names are [stem, suffix], the split Path(filename).suffix makes.
Stems    == {"s01e02", "S01E02", "s02e01", "1x02", "ep1"}
Suffixes == {".srt", ".SRT", ".txt"}
Filenames == [stem : Stems, suffix : Suffixes]

\* str.lower() on the strings of the model
LowerStr(s) ==
    CASE s = "S01E02" -> "s01e02"
      [] s = ".SRT"   -> ".srt"
      [] OTHER        -> s

Lower(f) == [stem |-> LowerStr(f.stem), suffix |-> LowerStr(f.suffix)]

\* The patterns of the model, as regular expressions:
\*   sxe      s(?P<season>\d+)e(?P<episode>\d+)
\*   x        (?P<season>\d+)x(?P<episode>\d+)
\*   swap     (?P<episode>\d+)\D(?P<season>\d+)
\*   nogroup  s(\d+)e(\d+)
Patterns == {"sxe", "x", "swap", "nogroup"}

Matched(season, episode) == [ok |-> TRUE, season |-> season, episode |-> episode]
Failed(e) == [ok |-> FALSE, exc |-> e]

\* The numbers a stem spells, season first as written
StemNumbers(stem) ==
    CASE stem = "s01e02" -> <<<<"0", "1">>, <<"0", "2">>>>
      [] stem = "s02e01" -> <<<<"0", "2">>, <<"0", "1">>>>
      [] stem = "1x02"   -> <<<<"1">>, <<"0", "2">>>>
      [] OTHER           -> <<>>

\* re.search(pattern, filename) followed by int(m.group('season')) and
\* int(m.group('episode')): the two numbers, or the exception raised.
re_search(pattern, f) ==
    LET n == StemNumbers(f.stem)
        sxe == f.stem \in {"s01e02", "s02e01"}
        x == f.stem = "1x02"
    IN  CASE pattern = "sxe" ->
               IF sxe THEN Matched(int(n[1]), int(n[2]))
               ELSE Failed("AttributeError")
          [] pattern = "x" ->
               IF x THEN Matched(int(n[1]), int(n[2]))
               ELSE Failed("AttributeError")
          [] pattern = "swap" ->
               IF sxe \/ x THEN Matched(int(n[2]), int(n[1]))
               ELSE Failed("AttributeError")
          [] pattern = "nogroup" ->
               IF sxe THEN Failed("IndexError")
               ELSE Failed("AttributeError")

\* A file that does not exist
NoFile == [exists |-> FALSE]

NoException == <<>>

Return(v) == [kind |-> "return", value |-> v]
Raise(e) == [kind |-> "raise", exc |-> e]

\* match_episode(filename, lst_pattern, lst_suffix).  The recursive call in
\* the except block passes two arguments to a function of three, so it
\* raises TypeError before its body runs.
match_episode(fname, patterns, suffixes) ==
    LET lowered == Lower(fname)
        suffix == lowered.suffix
    IN  IF patterns = <<>> THEN Raise("IndexError")
        ELSE LET pattern == Last(patterns)
                 rest == Front(patterns)
             IN  IF suffix \notin suffixes THEN Return(None)
                 ELSE LET m == re_search(pattern, lowered)
                      IN  IF m.ok THEN Return(FormatSE(m.season, m.episode))
                          ELSE IF rest # <<>> THEN Raise("TypeError")
                          ELSE Return(None)

RECURSIVE SeqsUpTo(_, _)
\* The sequences over S of length at most n
SeqsUpTo(S, n) ==
    IF n = 0 THEN {<<>>}
    ELSE LET shorter == SeqsUpTo(S, n - 1)
         IN  shorter \cup {Append(s, x) : s \in {t \in shorter : Len(t) = n - 1}, x \in S}

SuffixLists == SUBSET {".srt", ".SRT"}

Idle == <<>>

InitMatchVars ==
    /\ filename = Idle /\ lst_pattern = Idle /\ lst_suffix = Idle /\ se = Idle
InitHtmlVars ==
    /\ cues = Idle /\ line_no = 0 /\ lst_line = Idle /\ html = Idle
InitPrepVars ==
    /\ file_info = Idle /\ file_default = Idle /\ series_info = Idle
    /\ files = Idle /\ data = Idle /\ file_no = 0
    /\ run = 0 /\ file_before = Idle /\ history = Idle
InitGenVars ==
    /\ entry_no = 0 /\ lst_spine = Idle /\ toc = Idle /\ s_prev_season = 0
    /\ s_lst_episode = Idle /\ book = Idle /\ file_epub = Idle

InitMatch ==
    /\ pc = "match_episode"
    /\ filename \in Filenames
    /\ lst_pattern \in SeqsUpTo(Patterns, MaxPatterns)
    /\ lst_suffix \in SuffixLists
    /\ se = Idle
    /\ InitHtmlVars /\ InitPrepVars /\ InitGenVars /\ data_tv = Idle /\ exc = Idle

\* One call of match_episode
MatchEpisode ==
    /\ pc = "match_episode"
    /\ se' = match_episode(filename, lst_pattern, lst_suffix)
    /\ pc' = IF se'.kind = "raise" THEN "error" ELSE "done"
    /\ UNCHANGED <<filename, lst_pattern, lst_suffix, htmlVars, prepVars, genVars,
                   data_tv, exc>>

NextMatch == MatchEpisode

SpecMatch == InitMatch /\ [][NextMatch]_vars


\* ------------------------------------------- claims on match_episode
Called == pc \in {"done", "error"} /\ se # Idle

\* The suffix test as the claims state it: compared without regard to case
EligibleAnyCase(f, suffixes) ==
    LowerStr(f.suffix) \in {LowerStr(s) : s \in suffixes}

Succeeds(pattern, f) == re_search(pattern, Lower(f)).ok

Succeeding(patterns, f) == {i \in 1..Len(patterns) : Succeeds(patterns[i], f)}

IdOf(pattern, f) ==
    LET m == re_search(pattern, Lower(f)) IN FormatSE(m.season, m.episode)

FirstSuccess(patterns, f) ==
    LET i == CHOOSE k \in Succeeding(patterns, f) :
                 \A j \in Succeeding(patterns, f) : k <= j
    IN  IdOf(patterns[i], f)

\* C1: when the suffix is allowed and more than one pattern of the list
\* matches the filename, match_episode returns the identifier of the pattern
\* that comes first in the list.
C1_FirstPatternWins ==
    (/\ Called
     /\ Lower(filename).suffix \in lst_suffix
     /\ Cardinality(Succeeding(lst_pattern, filename)) > 1)
    => se = Return(FirstSuccess(lst_pattern, filename))

\* C2: when a pattern of the list fails on an eligible filename,
\* match_episode never raises; it returns the identifier of a succeeding
\* pattern when one exists and None when no pattern of the list succeeds.
C2_FallbackNeverAborts ==
    (/\ Called
     /\ Lower(filename).suffix \in lst_suffix
     /\ \E i \in 1..Len(lst_pattern) : ~Succeeds(lst_pattern[i], filename))
    => /\ se.kind = "return"
       /\ IF Succeeding(lst_pattern, filename) # {}
          THEN \E i \in Succeeding(lst_pattern, filename) :
                   se.value = IdOf(lst_pattern[i], filename)
          ELSE se.value = None

\* C3: a filename whose suffix is not allowed, compared without regard to
\* case, gives None without an error whatever the pattern list holds (the
\* empty list included); a suffix allowed up to case makes the file eligible,
\* so a single succeeding pattern gives its identifier.
C3_SuffixGate ==
    Called =>
        /\ ~EligibleAnyCase(filename, lst_suffix) => se = Return(None)
        /\ (/\ EligibleAnyCase(filename, lst_suffix)
            /\ Len(lst_pattern) = 1
            /\ Succeeds(lst_pattern[1], filename))
           => se = Return(IdOf(lst_pattern[1], filename))


\* ---------------------------------------------------- episode_html
\* The texts of the cues a subtitle file may hold
HelloThere == <<"H", "e", "l", "l", "o", " ", "t", "h", "e", "r", "e", ".">>
WorldContinued == <<"w", "o", "r", "l", "d", ",", " ", "c", "o", "n", "t", "i", "n", "u", "e", "d", ".">>
Hello == <<"H", "e", "l", "l", "o", ".">>
World == <<"W", "o", "r", "l", "d", ".">>
Laughs == <<"[", "l", "a", "u", "g", "h", "s", "]">>
Marked == <<"7", " ", ">", " ", "g", "o">>
Markup == <<"<", "i", ">", "n", "o", "<", "/", "i", ">">>
Empty == <<>>
CueTexts == {HelloThere, WorldContinued, Hello, World, Laughs, Marked, Markup, Empty}

LowerChars == {"a", "b", "c", "d", "e", "f", "g", "h", "i", "j", "k", "l", "m",
               "n", "o", "p", "q", "r", "s", "t", "u", "v", "w", "x", "y", "z"}
\* c.islower() of one character
islower(c) == c \in LowerChars

\* str(line) of the parser's cue number index (from 0): '<index> > <text>'
CueStr(index, text) == Digits(index) \o <<" ", ">", " ">> \o text

LeadingDigits(s) ==
    LET stops == {k \in 1..Len(s) : ~IsDigit(s[k])}
    IN  IF stops = {} THEN Len(s)
        ELSE (CHOOSE k \in stops : \A j \in stops : k <= j) - 1

RECURSIVE StripMarkers(_)
\* re.sub(r'\d+ > ', '', s): every occurrence is removed, left to right
StripMarkers(s) ==
    IF s = <<>> THEN <<>>
    ELSE LET k == LeadingDigits(s)
         IN  IF /\ k > 0
                /\ Len(s) >= k + 3
                /\ SubSeq(s, k + 1, k + 3) = <<" ", ">", " ">>
             THEN StripMarkers(SubSeq(s, k + 4, Len(s)))
             ELSE <<Head(s)>> \o StripMarkers(Tail(s))

\* re.sub(r'\d+ > ', '', str(line)) for every cue number and text
StrippedLines ==
    [index \in 0..(MaxCues - 1) |->
        [text \in CueTexts |-> StripMarkers(CueStr(index, text))]]

\* The line the first loop works on for the cue at position i of the file
CueLine(texts, i) == StrippedLines[i - 1][texts[i]]

\* Forgets del lst_line[-1]: the previous line stays beside the merged one
AppendLineKeepingPrevious(acc, line) ==
    IF acc # <<>> /\ islower(line[1])
    THEN Append(acc, Last(acc) \o <<" ">> \o line)
    ELSE Append(acc, line)

\* The body of the first loop once line[0] can be read: a line that starts
\* lowercase replaces the last accumulated line, joined to it by one space
AppendLine(acc, line) ==
    IF acc # <<>> /\ islower(line[1])
    THEN Append(Front(acc), Last(acc) \o <<" ">> \o line)
    ELSE Append(acc, line)

RECURSIVE text_content(_)
\* lxml.html.fromstring(line).text_content() on the texts of the model: the
\* tags <...> are dropped
text_content(s) ==
    IF s = <<>> THEN <<>>
    ELSE IF Head(s) = "<"
         THEN LET closes == {k \in 1..Len(s) : s[k] = ">"}
                  k == CHOOSE c \in closes : \A j \in closes : c <= j
              IN  IF closes = {} THEN s
                  ELSE text_content(SubSeq(s, k + 1, Len(s)))
         ELSE <<Head(s)>> \o text_content(Tail(s))

\* One pass of the second loop: '<p>{0}</p>' around the text, in <i> when
\* the text is wrapped in square brackets
Paragraph(line) ==
    LET text == text_content(line)
    IN  IF text[1] = "[" /\ Last(text) = "]"
        THEN <<"<p>", "<i>">> \o SubSeq(text, 2, Len(text) - 1) \o <<"</i>", "</p>">>
        ELSE <<"<p>">> \o text \o <<"</p>">>

RECURSIVE RenderAll(_)
RenderAll(lines) ==
    IF lines = <<>> THEN <<>>
    ELSE Paragraph(Head(lines)) \o RenderAll(Tail(lines))

InitHtml ==
    /\ pc = "parse"
    /\ cues \in SeqsUpTo(CueTexts, MaxCues)
    /\ line_no = 0
    /\ lst_line = <<>>
    /\ html = <<>>
    /\ InitMatchVars /\ InitPrepVars /\ InitGenVars /\ data_tv = Idle /\ exc = Idle

\* One pass of the first loop; line[0] of an empty line raises IndexError
\* when lst_line holds a line already
HtmlParseLine ==
    /\ pc = "parse"
    /\ line_no < Len(cues)
    /\ LET line == CueLine(cues, line_no + 1)
       IN  IF lst_line # <<>> /\ line = <<>>
           THEN /\ pc' = "error"
                /\ UNCHANGED <<line_no, lst_line>>
           ELSE /\ lst_line' = AppendLine(lst_line, line)
                /\ line_no' = line_no + 1
                /\ pc' = pc
    /\ UNCHANGED <<cues, html, matchVars, prepVars, genVars, data_tv, exc>>

\* The second loop; lxml refuses an empty document, and a text left empty
\* has no first character
HtmlRender ==
    /\ pc = "parse"
    /\ line_no = Len(cues)
    /\ IF \E i \in 1..Len(lst_line) : text_content(lst_line[i]) = <<>>
       THEN pc' = "error" /\ html' = html
       ELSE pc' = "done" /\ html' = RenderAll(lst_line)
    /\ UNCHANGED <<cues, line_no, lst_line, matchVars, prepVars, genVars, data_tv, exc>>

NextHtml == HtmlParseLine \/ HtmlRender

SpecHtml == InitHtml /\ [][NextHtml]_vars

\* ------------------------------------------- claims on episode_html
\* The lines read so far
LinesRead == [i \in 1..line_no |-> CueLine(cues, i)]

\* The positions where a paragraph starts: the first line, and every later
\* line whose first character is not lowercase
ParagraphStarts(lines) ==
    {i \in 1..Len(lines) : i = 1 \/ ~islower(lines[i][1])}

RECURSIVE JoinLines(_, _, _)
\* lines[from..to] joined by single spaces
JoinLines(lines, from, to) ==
    IF from = to THEN lines[from]
    ELSE JoinLines(lines, from, to - 1) \o <<" ">> \o lines[to]

\* The paragraph that starts at position i runs to the line before the next start
ParagraphFrom(lines, i) ==
    LET later == {j \in ParagraphStarts(lines) : j > i}
        to == IF later = {} THEN Len(lines)
              ELSE (CHOOSE j \in later : \A k \in later : j <= k) - 1
    IN  JoinLines(lines, i, to)

\* C6: while episode_html runs without an error, the accumulated lines are
\* the cue lines cut at every line after the first that does not start
\* lowercase, each run joined by single spaces, in cue order; so
\* ["Hello there.", "world, continued."] is one paragraph and
\* ["Hello.", "World."] are two.
C6_ContinuationMerge ==
    pc \in {"parse", "done"} =>
        /\ LET lines == LinesRead
               starts == ParagraphStarts(lines)
           IN  /\ Len(lst_line) = Cardinality(starts)
               /\ \A i \in starts :
                      lst_line[Cardinality({j \in starts : j <= i})]
                          = ParagraphFrom(lines, i)
        /\ (pc = "done" /\ cues = <<HelloThere, WorldContinued>>)
           => lst_line = <<HelloThere \o <<" ">> \o WorldContinued>>
        /\ (pc = "done" /\ cues = <<Hello, World>>) => lst_line = <<Hello, World>>
        /\ pc = "done" => html = RenderAll(lst_line)

\* A chain of two lowercase lines has collapsed into the first paragraph
C6_Witness ==
    /\ pc = "done"
    /\ Len(cues) = 3
    /\ islower(CueLine(cues, 2)[1]) /\ islower(CueLine(cues, 3)[1])
    /\ Len(lst_line) = 1


\* --------------------------------------------------------- generate
RECURSIVE ParseCues(_, _, _)
\* The first loop of episode_html over the cue texts from position i on
ParseCues(texts, i, acc) ==
    IF i > Len(texts) THEN Return(acc)
    ELSE LET line == CueLine(texts, i)
         IN  IF acc # <<>> /\ line = <<>> THEN Raise("IndexError")
             ELSE ParseCues(texts, i + 1, AppendLine(acc, line))

\* episode_html(filepath) on a file that holds the cue texts
episode_html(texts) ==
    LET parsed == ParseCues(texts, 1, <<>>)
    IN  IF parsed.kind = "raise" THEN parsed
        ELSE IF \E i \in 1..Len(parsed.value) : text_content(parsed.value[i]) = <<>>
             THEN Raise("ParserError")
             ELSE Return(RenderAll(parsed.value))

\* The subtitle files on disk, by name: the cue texts each holds
SubtitleNames == {"empty.srt", "talk.srt"}
SubtitleCues(name) ==
    IF name = "empty.srt" THEN <<>> ELSE <<Hello, WorldContinued>>

\* episode_html(str(filepath)) for each subtitle file
SubtitleHtml == [name \in SubtitleNames |-> episode_html(SubtitleCues(name))]

\* The tv entries of the info file: what prepare stores for an episode
\* without and with a matched subtitle file
ProviderInfo == [title |-> "t", description |-> "d"]
MatchedInfo(name) ==
    [title |-> "t", description |-> "d", subtitle |-> name, root |-> "dir"]
Infos == {ProviderInfo} \cup {MatchedInfo(n) : n \in SubtitleNames}

\* The tv mappings of the model, in file order: the entry at position i has
\* episode number i, so that keys never repeat
Stores ==
    {[i \in 1..Len(c) |-> [se |-> FormatSE(c[i][1], i), info |-> c[i][2]]] :
        c \in SeqsUpTo((0..MaxSeason) \X Infos, MaxEntries)}

\* 'subtitle' in info
HasSubtitle(info) == "subtitle" \in DOMAIN info

\* '<h2>{title}</h2><p><i>{description}</i></p>'
EpisodeIntro(title, description) ==
    <<"<h2>">> \o title \o <<"</h2>", "<p>", "<i>", description, "</i>", "</p>">>

\* '{0} - {1}'.format(se, info['title'])
ChapterTitle(key, info) == key \o <<" - ", info.title>>

\* epub.EpubHtml(title=title, file_name='{0}.xhtml'.format(se)) with its content
Chapter(key, info, content) ==
    [title |-> ChapterTitle(key, info),
     file_name |-> key \o <<".xhtml">>,
     content |-> content]

\* int(re.search('S(?P<season>\d+)', se).group('season')) on a key that
\* starts with S and digits
SeasonOf(key) == int(SubSeq(key, 2, 1 + LeadingDigits(Tail(key))))

\* (epub.Section('Season {0}'.format(season)), tuple(chapters))
Section(season, chapters) ==
    [section |-> <<"Season ">> \o Digits(season), chapters |-> chapters]

\* The spine item 'nav', a record as the chapters are
Nav == [item |-> "nav"]

\* lst_spine.insert(0, chap) in place of append
SpineInsertFirst(spine, chap) == <<chap>> \o spine

\* lst_spine.append(chap)
SpineAppend(spine, chap) == Append(spine, chap)

\* The season change starts the new run empty, losing its first chapter
TocStepDroppingFirst(sections, prev, episodes, season, chap) ==
    IF season # prev
    THEN [toc |-> IF episodes # <<>>
                  THEN Append(sections, Section(prev, episodes))
                  ELSE sections,
          s_lst_episode |-> <<>>,
          s_prev_season |-> season]
    ELSE [toc |-> sections,
          s_lst_episode |-> Append(episodes, chap),
          s_prev_season |-> prev]

\* The TOC lines of the loop body for a chapter of the given season
TocStep(sections, prev, episodes, season, chap) ==
    IF season # prev
    THEN [toc |-> IF episodes # <<>>
                  THEN Append(sections, Section(prev, episodes))
                  ELSE sections,
          s_lst_episode |-> <<chap>>,
          s_prev_season |-> season]
    ELSE [toc |-> sections,
          s_lst_episode |-> Append(episodes, chap),
          s_prev_season |-> prev]

\* The else clause of the loop: the run in progress is appended, empty or not
TocFlush(sections, prev, episodes) == Append(sections, Section(prev, episodes))

InitGenerate ==
    /\ pc = "loop"
    /\ data_tv \in Stores
    /\ entry_no = 0
    /\ lst_spine = <<>>
    /\ toc = <<>>
    /\ s_prev_season = 0
    /\ s_lst_episode = <<>>
    /\ book = Idle
    /\ file_epub = NoFile
    /\ exc = NoException
    /\ InitMatchVars /\ InitHtmlVars /\ InitPrepVars

\* A pass of the loop over an entry without a subtitle: continue
GenerateSkip ==
    /\ pc = "loop"
    /\ entry_no < Len(data_tv)
    /\ ~HasSubtitle(data_tv[entry_no + 1].info)
    /\ entry_no' = entry_no + 1
    /\ UNCHANGED <<pc, data_tv, lst_spine, toc, s_prev_season, s_lst_episode,
                   book, file_epub, exc, matchVars, htmlVars, prepVars>>

\* A pass of the loop over an entry with a subtitle
GenerateChapter ==
    /\ pc = "loop"
    /\ entry_no < Len(data_tv)
    /\ HasSubtitle(data_tv[entry_no + 1].info)
    /\ LET key == data_tv[entry_no + 1].se
           info == data_tv[entry_no + 1].info
           episode_intro == EpisodeIntro(ChapterTitle(key, info), info.description)
           subtitle == SubtitleHtml[info.subtitle]
       IN  IF subtitle.kind = "raise"
           THEN /\ pc' = "error"
                /\ exc' = <<subtitle.exc>>
                /\ UNCHANGED <<entry_no, lst_spine, toc, s_prev_season, s_lst_episode>>
           ELSE LET content == episode_intro \o subtitle.value
                    chap == Chapter(key, info, content)
                    step == TocStep(toc, s_prev_season, s_lst_episode, SeasonOf(key), chap)
                IN  IF content = <<>>
                    THEN /\ pc' = "error"
                         /\ exc' = <<"Empty content", key>>
                         /\ UNCHANGED <<entry_no, lst_spine, toc, s_prev_season,
                                        s_lst_episode>>
                    ELSE /\ lst_spine' = SpineAppend(lst_spine, chap)
                         /\ toc' = step.toc
                         /\ s_lst_episode' = step.s_lst_episode
                         /\ s_prev_season' = step.s_prev_season
                         /\ entry_no' = entry_no + 1
                         /\ UNCHANGED <<pc, exc>>
    /\ UNCHANGED <<data_tv, book, file_epub, matchVars, htmlVars, prepVars>>

\* After the loop: the else clause, book.toc, book.spine and write_epub
GenerateWrite ==
    /\ pc = "loop"
    /\ entry_no = Len(data_tv)
    /\ toc' = TocFlush(toc, s_prev_season, s_lst_episode)
    /\ lst_spine' = <<Nav>> \o lst_spine
    /\ book' = [toc |-> toc', spine |-> lst_spine']
    /\ file_epub' = [exists |-> TRUE, book |-> book']
    /\ pc' = "done"
    /\ UNCHANGED <<data_tv, entry_no, s_prev_season, s_lst_episode, exc,
                   matchVars, htmlVars, prepVars>>

NextGenerate == GenerateSkip \/ GenerateChapter \/ GenerateWrite

SpecGenerate == InitGenerate /\ [][NextGenerate]_vars


\* ----------------------------------------------- claims on generate
IsChapter(item) == item # Nav

\* The chapters of the spine, in spine order
SpineChapters == SelectSeq(lst_spine, IsChapter)

EntryHasSubtitle(entry) == HasSubtitle(entry.info)

\* The file names of the entries read so far that have a subtitle, in the
\* order of the info file
EligibleFileNames ==
    LET eligible == SelectSeq(SubSeq(data_tv, 1, entry_no), EntryHasSubtitle)
    IN  [k \in 1..Len(eligible) |-> eligible[k].se \o <<".xhtml">>]

RECURSIVE SectionChapters(_)
\* The chapters of the sections, concatenated in section order
SectionChapters(sections) ==
    IF sections = <<>> THEN <<>>
    ELSE Head(sections).chapters \o SectionChapters(Tail(sections))

\* The season a chapter belongs to, read off its file name
ChapterSeason(chap) == SeasonOf(chap.file_name)

\* The entry at position j has a subtitle file that yields no cue line
YieldsNoCue(j) ==
    /\ HasSubtitle(data_tv[j].info)
    /\ SubtitleHtml[data_tv[j].info.subtitle] = Return(<<>>)

\* C4: an entry whose subtitle file yields zero cue lines aborts generate
\* with an error naming its EpisodeId; it never becomes a chapter and no
\* e-book file is written.
C4_FailFastOnEmptyChapter ==
    \A j \in 1..Len(data_tv) :
        YieldsNoCue(j) =>
            /\ entry_no < j
            /\ file_epub = NoFile
            /\ (entry_no = j - 1 /\ pc # "loop")
               => (pc = "error" /\ exc = <<"Empty content", data_tv[j].se>>)
            /\ \A k \in 1..Len(SpineChapters) :
                   SpineChapters[k].file_name # data_tv[j].se \o <<".xhtml">>

\* The positions of the spine's chapters where a run of equal seasons starts
RunStarts(chapters) ==
    {i \in 1..Len(chapters) :
        i = 1 \/ ChapterSeason(chapters[i]) # ChapterSeason(chapters[i - 1])}

RunEnd(chapters, i) ==
    LET later == {j \in RunStarts(chapters) : j > i}
    IN  IF later = {} THEN Len(chapters)
        ELSE (CHOOSE j \in later : \A k \in later : j <= k) - 1

\* C5: when generate ends, the TOC holds exactly one section per maximal run
\* of equal season numbers of the chapters, in run order, each with the
\* chapters of its run; a book without chapters has no section.
C5_TocContiguity ==
    pc = "done" =>
        /\ Len(book.toc) = Cardinality(RunStarts(SpineChapters))
        /\ \A i \in RunStarts(SpineChapters) :
               LET k == Cardinality({j \in RunStarts(SpineChapters) : j <= i})
               IN  book.toc[k] =
                       Section(ChapterSeason(SpineChapters[i]),
                               SubSeq(SpineChapters, i, RunEnd(SpineChapters, i)))

\* C8: at every point of generate the chapters of the spine are those of the
\* entries read so far that have a subtitle, in the order of the info file,
\* and every chapter of the TOC is a chapter of the spine.
C8_ChapterEligibility ==
    /\ [k \in 1..Len(SpineChapters) |-> SpineChapters[k].file_name] = EligibleFileNames
    /\ LET listed == SectionChapters(toc) \o (IF pc = "done" THEN <<>> ELSE s_lst_episode)
       IN  \A k \in 1..Len(listed) :
               \E n \in 1..Len(SpineChapters) : SpineChapters[n] = listed[k]

\* An entry without a subtitle was skipped between two chapters
C8_Witness ==
    /\ pc = "done"
    /\ Len(SpineChapters) >= 2
    /\ \E i, j, k \in 1..Len(data_tv) :
           /\ i < j /\ j < k
           /\ HasSubtitle(data_tv[i].info)
           /\ ~HasSubtitle(data_tv[j].info)
           /\ HasSubtitle(data_tv[k].info)

\* C10: the sections' chapters, concatenated in section order (with the run
\* in progress while the loop runs), are the chapters of the spine, and a
\* section's label 'Season N' names the season of each of its chapters.
C10_TocPartitionsSpine ==
    /\ pc \in {"loop", "error"} => SectionChapters(toc) \o s_lst_episode = SpineChapters
    /\ pc = "done" => SectionChapters(book.toc) = SelectSeq(book.spine, IsChapter)
    /\ \A k \in 1..Len(toc) :
           \A n \in 1..Len(toc[k].chapters) :
               toc[k].section = <<"Season ">> \o Digits(ChapterSeason(toc[k].chapters[n]))

\* The book has three sections, the last run flushed after the loop
C10_Witness ==
    /\ pc = "done"
    /\ Len(book.toc) = 3
    /\ Len(book.toc[3].chapters) >= 1
    /\ Len(book.toc[1].chapters) = 2


\* ---------------------------------------------------------- prepare
\* The info file and the bundled config.json hold a JSON object, here a
\* record; a file may also be missing or hold text that json.load refuses.
Garbage == [exists |-> TRUE, valid |-> FALSE]
JsonFile(object) == [exists |-> TRUE, valid |-> TRUE, json |-> object]

Configs ==
    {[subtitleSuffix |-> {".srt"}, episodePattern |-> <<"sxe">>],
     [subtitleSuffix |-> {".srt"}, episodePattern |-> <<"sxe", "x">>],
     [subtitleSuffix |-> {".srt", ".txt"}, episodePattern |-> <<"x", "swap">>]}

EpisodeKeys == {FormatSE(1, 2), FormatSE(2, 1)}

\* The tv mappings a provider may return, and one an older run left behind
ProviderData == UNION {[keys -> {ProviderInfo}] : keys \in SUBSET EpisodeKeys}
StaleTv == [key \in {FormatSE(9, 9)} |-> ProviderInfo]

\* The info files prepare may find: none, unreadable, edited by hand
\* without a zconfig block, or written by an earlier run
InfoFiles ==
    {NoFile, Garbage, JsonFile([bookInfo |-> "book", tv |-> StaleTv])}
    \cup {JsonFile([zconfig |-> c, bookInfo |-> "book", tv |-> StaleTv]) : c \in Configs}

\* config.json beside the module: a zconfig block and a bookInfo block
DefaultFiles == {JsonFile([zconfig |-> c, bookInfo |-> "default"]) : c \in Configs}

\* get_series_info(title): the provider's mapping, or a failed request
SeriesInfos == {[ok |-> FALSE]} \cup {[ok |-> TRUE, tv |-> t] : t \in ProviderData}

\* The files os.walk(dirpath) yields, each with the directory it is in
WalkedNames ==
    {[stem |-> "s01e02", suffix |-> ".srt"], [stem |-> "s02e01", suffix |-> ".SRT"],
     [stem |-> "1x02", suffix |-> ".srt"], [stem |-> "ep1", suffix |-> ".txt"]}
Walked == [root : {"dir"}, filename : WalkedNames]

\* d.get(key, default)
Get(d, key, default) == IF key \in DOMAIN d THEN d[key] ELSE default

\* d.update({key: value})
Update(d, key, value) ==
    [k \in DOMAIN d \cup {key} |-> IF k = key THEN value ELSE d[k]]

EmptyDict == [k \in {} |-> k]

\* json.load(fp) of the info file, or of config.json when that fails
LoadData(info, default) ==
    IF info.exists /\ info.valid THEN info.json ELSE default.json

\* data_tv.get(se, {}): a file without a provider entry gets a fresh one
ProviderEntryOrDefault(tv, key) ==
    IF key \in DOMAIN tv THEN Return(tv[key]) ELSE Return(EmptyDict)

\* info = data_tv.get(se) and info.update(...): None has no update
ProviderEntry(tv, key) ==
    IF key \in DOMAIN tv THEN Return(tv[key]) ELSE Raise("AttributeError")

\* pop(-1) on the caller's list itself
PatternsAfterCallWithoutCopy(patterns) == Front(patterns)

\* The caller's pattern list after match_episode: the pop is on a copy
PatternsAfterCall(patterns) == patterns

\* The data block with its episodePattern list as the walk left it (the
\* list prepare passes to match_episode is the one inside data)
WithPatterns(d, patterns) ==
    IF "zconfig" \in DOMAIN d /\ "episodePattern" \in DOMAIN d.zconfig
    THEN [d EXCEPT !.zconfig.episodePattern = patterns]
    ELSE d

InitPrepare ==
    /\ pc = "load"
    /\ exc = NoException
    /\ file_info \in InfoFiles
    /\ file_default \in DefaultFiles
    /\ series_info \in SeriesInfos
    /\ files \in SeqsUpTo(Walked, MaxFiles)
    /\ data = Idle
    /\ data_tv = Idle
    /\ lst_pattern = Idle
    /\ lst_suffix = Idle
    /\ file_no = 0
    /\ run = 1
    /\ file_before = file_info
    /\ history = <<>>
    /\ filename = Idle /\ se = Idle
    /\ InitHtmlVars /\ InitGenVars

PrepareIdle == <<filename, se, htmlVars, genVars>>

\* The run ends: what it left behind is recorded
Ended(how, left) == Append(history, [pc |-> how, file_info |-> left])

\* Lines 120-130: the info file or the default, and the config lists
PrepareLoad ==
    /\ pc = "load"
    /\ data' = LoadData(file_info, file_default)
    /\ LET config == Get(data', "zconfig", EmptyDict)
       IN  /\ lst_suffix' = Get(config, "subtitleSuffix", {})
           /\ lst_pattern' = Get(config, "episodePattern", <<>>)
    /\ pc' = "fetch"
    /\ UNCHANGED <<exc, file_info, file_default, series_info, files, data_tv,
                   file_no, run, file_before, history, PrepareIdle>>

\* Line 132: get_series_info; a failed request raises out of prepare
PrepareFetch ==
    /\ pc = "fetch"
    /\ IF series_info.ok
       THEN /\ data_tv' = series_info.tv
            /\ pc' = "walk"
            /\ UNCHANGED <<exc, history>>
       ELSE /\ pc' = "error"
            /\ exc' = <<"ConnectionError">>
            /\ history' = Ended("error", file_info)
            /\ UNCHANGED data_tv
    /\ UNCHANGED <<file_info, file_default, series_info, files, data, lst_pattern,
                   lst_suffix, file_no, run, file_before, PrepareIdle>>

\* Lines 135-143 for one file of the walk
PrepareFile ==
    /\ pc = "walk"
    /\ file_no < Len(files)
    /\ LET file == files[file_no + 1]
           found == match_episode(file.filename, lst_pattern, lst_suffix)
           info == ProviderEntry(data_tv, found.value)
       IN  /\ lst_pattern' = PatternsAfterCall(lst_pattern)
           /\ IF found.kind = "raise"
              THEN /\ pc' = "error"
                   /\ exc' = <<found.exc>>
                   /\ history' = Ended("error", file_info)
                   /\ UNCHANGED <<data_tv, file_no>>
              ELSE IF found.value = None
              THEN /\ file_no' = file_no + 1
                   /\ UNCHANGED <<pc, exc, history, data_tv>>
              ELSE IF info.kind = "raise"
              THEN /\ pc' = "error"
                   /\ exc' = <<info.exc>>
                   /\ history' = Ended("error", file_info)
                   /\ UNCHANGED <<data_tv, file_no>>
              ELSE /\ data_tv' =
                        Update(data_tv, found.value,
                               Update(Update(info.value, "subtitle", file.filename),
                                      "root", file.root))
                   /\ file_no' = file_no + 1
                   /\ UNCHANGED <<pc, exc, history>>
    /\ UNCHANGED <<file_info, file_default, series_info, files, data, lst_suffix,
                   run, file_before, PrepareIdle>>

\* Lines 145-148: the tv block is replaced and the info file overwritten
PrepareWrite ==
    /\ pc = "walk"
    /\ file_no = Len(files)
    /\ data' = Update(WithPatterns(data, lst_pattern), "tv", data_tv)
    /\ file_info' = JsonFile(data')
    /\ pc' = "done"
    /\ history' = Ended("done", file_info')
    /\ UNCHANGED <<exc, file_default, series_info, files, data_tv, lst_pattern,
                   lst_suffix, file_no, run, file_before, PrepareIdle>>

\* prepare is invoked again on the same directory and provider
PrepareAgain ==
    /\ pc \in {"done", "error"}
    /\ run < MaxRuns
    /\ run' = run + 1
    /\ pc' = "load"
    /\ exc' = NoException
    /\ file_before' = file_info
    /\ data' = Idle
    /\ data_tv' = Idle
    /\ lst_pattern' = Idle
    /\ lst_suffix' = Idle
    /\ file_no' = 0
    /\ UNCHANGED <<file_info, file_default, series_info, files, history, PrepareIdle>>

NextPrepare ==
    PrepareLoad \/ PrepareFetch \/ PrepareFile \/ PrepareWrite \/ PrepareAgain

SpecPrepare == InitPrepare /\ [][NextPrepare]_vars


\* ------------------------------------------------ claims on prepare
\* The file at position i matches an EpisodeId the provider did not return
Unlisted(i) ==
    LET found == match_episode(files[i].filename, lst_pattern, lst_suffix)
    IN  /\ series_info.ok
        /\ found.kind = "return"
        /\ found.value # None
        /\ found.value \notin DOMAIN series_info.tv

\* C7: a file that matches an EpisodeId the provider did not return makes
\* prepare fail: the walk does not pass it, no entry is made up for it, and
\* the info file is as it was before the invocation; until prepare writes at
\* its end the info file is never touched.
C7_UnlistedMatchIsFatal ==
    /\ pc \in {"walk", "done", "error"} =>
           \A i \in 1..Len(files) :
               Unlisted(i) =>
                   /\ file_no < i
                   /\ pc # "done"
                   /\ file_info = file_before
    /\ (pc \in {"walk", "done", "error"} /\ series_info.ok)
       => DOMAIN data_tv = DOMAIN series_info.tv
    /\ pc # "done" => file_info = file_before

\* prepare failed on the second file, after merging the first, and the
\* existing info file is untouched
C7_Witness ==
    /\ pc = "error"
    /\ exc = <<"AttributeError">>
    /\ file_no = 1
    /\ Unlisted(2)
    /\ file_info.exists /\ file_info.valid
    /\ file_info = file_before

\* C9: of two invocations in a row on the same directory and provider data,
\* the second ends as the first did and leaves the info file the first left;
\* its write keeps the zconfig and bookInfo blocks and stores an equal tv
\* mapping.
C9_PrepareIdempotent ==
    /\ \A k \in 2..Len(history) : history[k] = history[k - 1]
    /\ (pc = "done" /\ run >= 2) =>
           /\ file_before.exists /\ file_before.valid
           /\ Get(file_info.json, "zconfig", None) = Get(file_before.json, "zconfig", None)
           /\ file_info.json.bookInfo = file_before.json.bookInfo
           /\ file_info.json.tv = file_before.json.tv

\* Two runs wrote the info file, the first from the bundled default, with a
\* subtitle merged into an episode
C9_Witness ==
    /\ pc = "done"
    /\ run = 2
    /\ Len(history) = 2
    /\ history[1].pc = "done"
    /\ file_info.json.bookInfo = "default"
    /\ \E key \in DOMAIN file_info.json.tv : "subtitle" \in DOMAIN file_info.json.tv[key]

=============================================================================
